---- MODULE Spec2Model ----
(***************************************************************************)
(* Model of scripts/crystal_classes.py: two module-level dictionaries and  *)
(* the two accessors get_crystal_class_name and get_crystal_system_info.   *)
(*                                                                         *)
(* Python objects are modelled with their sharing: a dict is a function,   *)
(* a list is a cell of `heap` named by a reference, so that a list held by *)
(* two dicts is one cell.  A string is a TLA+ string.  An optional integer *)
(* is <<>> (None) or <<n>> (the int n).                                    *)
(***************************************************************************)
EXTENDS Integers, Sequences, FiniteSets, TLC

VARIABLES
    CRYSTAL_CLASS_LOOKUP,   \* dict int -> str              (module global)
    CRYSTAL_SYSTEM_INFO,    \* dict str -> {description, examples: ref}
    heap,                   \* list objects: ref -> sequence of str
    last,                   \* the caller's most recent call and what it got
    memo,                   \* an earlier call the caller kept for comparison
    mutations               \* number of caller writes to returned records

vars == <<CRYSTAL_CLASS_LOOKUP, CRYSTAL_SYSTEM_INFO, heap, last, memo, mutations>>

----------------------------------------------------------------------------
(* Bounds of the exploration *)

MaxNeg == 10
MaxId == 10
MaxMutations == 2

----------------------------------------------------------------------------
(* Inputs *)

None == <<>>
Some(n) == <<n>>

\* the identifiers of the demonstration loop
DemoIds == <<Some(1), Some(2), Some(3), Some(4), Some(5), Some(6), Some(7), Some(8), None, Some(99)>>

Ids == {None} \cup {Some(n) : n \in (0 - MaxNeg)..MaxId} \cup {DemoIds[i] : i \in DOMAIN DemoIds}

\* minerals a caller may write into a record it was given
CallerMinerals == {"Kryptonite"}

----------------------------------------------------------------------------
(* The two tables as written in the source *)

CLASS_LOOKUP_SWAPPED ==
    [i \in 1..8 |->
        CASE i = 1 -> "Isometric (Cubic)"
          [] i = 2 -> "Trigonal"
          [] i = 3 -> "Tetragonal"
          [] i = 4 -> "Orthorhombic"
          [] i = 5 -> "Monoclinic"
          [] i = 6 -> "Triclinic"
          [] i = 7 -> "Hexagonal"
          [] i = 8 -> "Amorphous"]

CLASS_LOOKUP_INIT ==
    [i \in 1..8 |->
        CASE i = 1 -> "Isometric (Cubic)"
          [] i = 2 -> "Hexagonal"
          [] i = 3 -> "Tetragonal"
          [] i = 4 -> "Orthorhombic"
          [] i = 5 -> "Monoclinic"
          [] i = 6 -> "Triclinic"
          [] i = 7 -> "Trigonal"
          [] i = 8 -> "Amorphous"]

\* the entries of CRYSTAL_SYSTEM_INFO in source order; entry i owns list i
SYSTEM_INFO_TYPO ==
    << [key |-> "Isometric",
        description |-> "Has three equal axes at right angles. Characterized by high symmetry and includes common minerals like pyrite, halite, and fluorite.",
        examples |-> <<"Pyrite", "Halite", "Fluorite", "Galena", "Diamond">>],
       [key |-> "Hexagonal",
        description |-> "Has three equal axes in one plane at 120° angles, and a fourth axis perpendicular to this plane. Includes minerals like beryl and apatite.",
        examples |-> <<"Beryl", "Apatite", "Vanadinite">>],
       [key |-> "Tetragonal",
        description |-> "Has three axes at right angles, with two being equal in length. Includes minerals like zircon and rutile.",
        examples |-> <<"Zircon", "Rutile", "Vesuvianite">>],
       [key |-> "Orthorhombic",
        description |-> "Has three unequal axes at right angles. Includes minerals like olivine and topaz.",
        examples |-> <<"Olivine", "Topaz", "Baryte", "Aragonite">>],
       [key |-> "Monoclinic",
        description |-> "Has three unequal axes with one oblique intersection. Includes minerals like gypsum and orthoclase.",
        examples |-> <<"Gypsum", "Orthoclase", "Hornblende", "Malachite">>],
       [key |-> "Triclinic",
        description |-> "Has three unequal axes with oblique intersections. The least symmetrical system, including minerals like plagioclase and kyanite.",
        examples |-> <<"Plagioclase", "Kyanite", "Turquoise", "Microcline">>],
       [key |-> "Trigonal",
        description |-> "Previously considered part of the hexagonal system, it has three equal axes at 120° angles. Includes quartz and calcite.",
        examples |-> <<"Quartz", "Calcite", "Corundum", "Tourmaline">>],
       [key |-> "Amorphous",
        description |-> "No definite crystalline structure. Includes minerals like opal which lack a regular internal atomic arrangement.",
        examples |-> <<"Opal", "Obsidian", "Limonite">>] >>

SYSTEM_INFO_INIT ==
    << [key |-> "Isometric (Cubic)",
        description |-> "Has three equal axes at right angles. Characterized by high symmetry and includes common minerals like pyrite, halite, and fluorite.",
        examples |-> <<"Pyrite", "Halite", "Fluorite", "Galena", "Diamond">>],
       [key |-> "Hexagonal",
        description |-> "Has three equal axes in one plane at 120° angles, and a fourth axis perpendicular to this plane. Includes minerals like beryl and apatite.",
        examples |-> <<"Beryl", "Apatite", "Vanadinite">>],
       [key |-> "Tetragonal",
        description |-> "Has three axes at right angles, with two being equal in length. Includes minerals like zircon and rutile.",
        examples |-> <<"Zircon", "Rutile", "Vesuvianite">>],
       [key |-> "Orthorhombic",
        description |-> "Has three unequal axes at right angles. Includes minerals like olivine and topaz.",
        examples |-> <<"Olivine", "Topaz", "Baryte", "Aragonite">>],
       [key |-> "Monoclinic",
        description |-> "Has three unequal axes with one oblique intersection. Includes minerals like gypsum and orthoclase.",
        examples |-> <<"Gypsum", "Orthoclase", "Hornblende", "Malachite">>],
       [key |-> "Triclinic",
        description |-> "Has three unequal axes with oblique intersections. The least symmetrical system, including minerals like plagioclase and kyanite.",
        examples |-> <<"Plagioclase", "Kyanite", "Turquoise", "Microcline">>],
       [key |-> "Trigonal",
        description |-> "Previously considered part of the hexagonal system, it has three equal axes at 120° angles. Includes quartz and calcite.",
        examples |-> <<"Quartz", "Calcite", "Corundum", "Tourmaline">>],
       [key |-> "Amorphous",
        description |-> "No definite crystalline structure. Includes minerals like opal which lack a regular internal atomic arrangement.",
        examples |-> <<"Opal", "Obsidian", "Limonite">>] >>

InfoKeys == {SYSTEM_INFO_INIT[i].key : i \in DOMAIN SYSTEM_INFO_INIT}

InfoIndex(k) == CHOOSE i \in DOMAIN SYSTEM_INFO_INIT : SYSTEM_INFO_INIT[i].key = k

----------------------------------------------------------------------------
(* Python built-ins used by the source *)

\* str(int) for a natural number: decimal digits, most significant first
RECURSIVE NatToStr(_)
NatToStr(n) ==
    IF n < 10 THEN SubSeq("0123456789", n + 1, n + 1)
    ELSE NatToStr(n \div 10) \o SubSeq("0123456789", (n % 10) + 1, (n % 10) + 1)

IntToStrNoSign(n) == IF n < 0 THEN NatToStr(0 - n) ELSE NatToStr(n)

\* str(int): a minus sign before the digits of a negative number
IntToStr(n) == IF n < 0 THEN "-" \o NatToStr(0 - n) ELSE NatToStr(n)

FormatUnknownNoPrefix(class_id) == "Unknown Crystal Class ({class_id})"

\* f"Unknown Crystal Class ({class_id})" for an int class_id
FormatUnknown(class_id) == "Unknown Crystal Class (" \o IntToStr(class_id[1]) \o ")"

IsFalsy(x) == x = None \/ x = Some(0)

\* x is None
IsNone(x) == x = None

\* d[k]: KeyError when k is missing, the default is not used
DictSubscript(d, k, default) ==
    IF k \in DOMAIN d
    THEN [raised |-> FALSE, ret |-> d[k], dict |-> d]
    ELSE [raised |-> TRUE, ret |-> default, dict |-> d]

\* d.pop(k, default): the entry is removed when found
DictPop(d, k, default) ==
    IF k \in DOMAIN d
    THEN [raised |-> FALSE, ret |-> d[k], dict |-> [j \in DOMAIN d \ {k} |-> d[j]]]
    ELSE [raised |-> FALSE, ret |-> default, dict |-> d]

\* d.setdefault(k, default): the default is stored when k is missing
DictSetDefault(d, k, default) ==
    IF k \in DOMAIN d
    THEN [raised |-> FALSE, ret |-> d[k], dict |-> d]
    ELSE [raised |-> FALSE, ret |-> default,
          dict |-> [j \in DOMAIN d \cup {k} |-> IF j = k THEN default ELSE d[j]]]

\* d.get(k, default): the value of k, or default; d is left as it is
DictGet(d, k, default) ==
    IF k \in DOMAIN d
    THEN [raised |-> FALSE, ret |-> d[k], dict |-> d]
    ELSE [raised |-> FALSE, ret |-> default, dict |-> d]

\* a new list object: the lowest reference not in use
Alloc(hp) == CHOOSE r \in 1..(Cardinality(DOMAIN hp) + 1) :
                 r \notin DOMAIN hp /\ \A q \in 1..(r - 1) : q \in DOMAIN hp

\* the dict literal given as default to CRYSTAL_SYSTEM_INFO.get
DefaultInfoEmptyText(ref) == [description |-> "", examples |-> ref]

DefaultInfo(ref) ==
    [description |-> "No additional information available for this crystal system.",
     examples |-> ref]

----------------------------------------------------------------------------
(* The two functions.  Each yields what the call returns (ret), whether it *)
(* raised, the return statement it left by (line), and the globals and the *)
(* heap as the call leaves them.                                           *)

get_crystal_class_name(class_id, lookup) ==
    IF IsNone(class_id)
    THEN [raised |-> FALSE, ret |-> "Unknown", line |-> 28, lookup |-> lookup]
    ELSE LET g == DictGet(lookup, class_id[1], FormatUnknown(class_id))
         IN  [raised |-> g.raised, ret |-> g.ret, line |-> 30, lookup |-> g.dict]

get_crystal_system_info(class_id, lookup, infotab, hp) ==
    LET n == get_crystal_class_name(class_id, lookup)
        ref == Alloc(hp)
        hp1 == [r \in DOMAIN hp \cup {ref} |-> IF r = ref THEN <<>> ELSE hp[r]]
        g == DictGet(infotab, n.ret, DefaultInfo(ref))
        info == g.ret
    IN  IF n.raised
        THEN [raised |-> TRUE, ret |-> "KeyError", line |-> 78,
              lookup |-> n.lookup, infotab |-> infotab, heap |-> hp]
        ELSE IF g.raised
        THEN [raised |-> TRUE, ret |-> "KeyError", line |-> 79,
              lookup |-> n.lookup, infotab |-> g.dict, heap |-> hp1]
        ELSE IF ~ ({"description", "examples"} \subseteq DOMAIN info)
        THEN [raised |-> TRUE, ret |-> "KeyError", line |-> 86,
              lookup |-> n.lookup, infotab |-> g.dict, heap |-> hp1]
        ELSE [raised |-> FALSE,
              ret |-> [name |-> n.ret,
                       description |-> info["description"],
                       examples |-> info["examples"]],
              line |-> 84,
              lookup |-> n.lookup, infotab |-> g.dict, heap |-> hp1]

----------------------------------------------------------------------------
(* The caller's side *)

NoCall == [op |-> "none", arg |-> None, raised |-> FALSE, line |-> 0, ret |-> ""]

IsInfoResult(c) == c.op = "get_crystal_system_info" /\ ~ c.raised

\* the list object a held call result refers to
HeldRefs(c) == IF IsInfoResult(c) THEN {c.ret.examples} ELSE {}

\* the list objects still referenced by the tables or by the caller
Live(infotab, a, b) ==
    {infotab[k].examples : k \in DOMAIN infotab} \cup HeldRefs(a) \cup HeldRefs(b)

\* list objects nothing refers to any more are freed
Collect(hp, infotab, a, b) ==
    [r \in DOMAIN hp \cap Live(infotab, a, b) |-> hp[r]]

\* CRYSTAL_SYSTEM_INFO as the module body builds it: one list object per entry
InitInfoTab ==
    [k \in InfoKeys |->
        [description |-> SYSTEM_INFO_INIT[InfoIndex(k)].description,
         examples |-> InfoIndex(k)]]

InitHeap == [r \in DOMAIN SYSTEM_INFO_INIT |-> SYSTEM_INFO_INIT[r].examples]

Init ==
    /\ CRYSTAL_CLASS_LOOKUP = CLASS_LOOKUP_INIT
    /\ CRYSTAL_SYSTEM_INFO = InitInfoTab
    /\ heap = InitHeap
    /\ last = NoCall
    /\ memo = NoCall
    /\ mutations = 0

\* name = get_crystal_class_name(class_id)
CallName(class_id) ==
    LET c == get_crystal_class_name(class_id, CRYSTAL_CLASS_LOOKUP)
        new == [op |-> "get_crystal_class_name", arg |-> class_id,
                raised |-> c.raised, line |-> c.line, ret |-> c.ret]
    IN  /\ CRYSTAL_CLASS_LOOKUP' = c.lookup
        /\ last' = new
        /\ heap' = Collect(heap, CRYSTAL_SYSTEM_INFO, new, memo)
        /\ UNCHANGED <<CRYSTAL_SYSTEM_INFO, memo, mutations>>

\* info = get_crystal_system_info(class_id)
CallInfo(class_id) ==
    LET c == get_crystal_system_info(class_id, CRYSTAL_CLASS_LOOKUP,
                                     CRYSTAL_SYSTEM_INFO, heap)
        new == [op |-> "get_crystal_system_info", arg |-> class_id,
                raised |-> c.raised, line |-> c.line, ret |-> c.ret]
    IN  /\ CRYSTAL_CLASS_LOOKUP' = c.lookup
        /\ CRYSTAL_SYSTEM_INFO' = c.infotab
        /\ last' = new
        /\ heap' = Collect(c.heap, c.infotab, new, memo)
        /\ UNCHANGED <<memo, mutations>>

\* the caller keeps the result of the call it just made
Keep ==
    /\ last.op # "none"
    /\ memo' = last
    /\ heap' = Collect(heap, CRYSTAL_SYSTEM_INFO, last, last)
    /\ UNCHANGED <<CRYSTAL_CLASS_LOOKUP, CRYSTAL_SYSTEM_INFO, last, mutations>>

\* info["examples"].append(x)
ExamplesAppend(x) ==
    /\ IsInfoResult(last)
    /\ mutations < MaxMutations
    /\ heap' = [heap EXCEPT ![last.ret.examples] = Append(@, x)]
    /\ mutations' = mutations + 1
    /\ UNCHANGED <<CRYSTAL_CLASS_LOOKUP, CRYSTAL_SYSTEM_INFO, last, memo>>

\* info["examples"].pop()
ExamplesPop ==
    /\ IsInfoResult(last)
    /\ mutations < MaxMutations
    /\ Len(heap[last.ret.examples]) > 0
    /\ heap' = [heap EXCEPT ![last.ret.examples] = SubSeq(@, 1, Len(@) - 1)]
    /\ mutations' = mutations + 1
    /\ UNCHANGED <<CRYSTAL_CLASS_LOOKUP, CRYSTAL_SYSTEM_INFO, last, memo>>

\* info["description"] = text
RecordSetDescription(text) ==
    /\ IsInfoResult(last)
    /\ mutations < MaxMutations
    /\ last' = [last EXCEPT !.ret.description = text]
    /\ mutations' = mutations + 1
    /\ UNCHANGED <<CRYSTAL_CLASS_LOOKUP, CRYSTAL_SYSTEM_INFO, heap, memo>>

Next ==
    \/ \E id \in Ids : CallName(id)
    \/ \E id \in Ids : CallInfo(id)
    \/ Keep

Spec == Init /\ [][Next]_vars

NextCaller ==
    \/ \E id \in Ids : CallName(id)
    \/ \E id \in Ids : CallInfo(id)
    \/ \E x \in CallerMinerals : ExamplesAppend(x)
    \/ ExamplesPop
    \/ \E t \in {""} : RecordSetDescription(t)

SpecCaller == Init /\ [][NextCaller]_vars

----------------------------------------------------------------------------
(* Observations used by the properties *)

KnownIds == {Some(i) : i \in 1..8}

IsNameCall(c) == c.op = "get_crystal_class_name"

IsInfoCall(c) == c.op = "get_crystal_system_info"

\* a returned record with its examples list read out of the heap
InfoView(rec, hp) ==
    [name |-> rec.name, description |-> rec.description, examples |-> hp[rec.examples]]

\* the Info Table with every examples list read out of the heap
InfoTableView(infotab, hp) ==
    [k \in DOMAIN infotab |->
        [description |-> infotab[k].description, examples |-> hp[infotab[k].examples]]]

\* what get_crystal_system_info(id) yields on the tables as first built
OriginalInfo(id) ==
    LET c == get_crystal_system_info(id, CLASS_LOOKUP_INIT, InitInfoTab, InitHeap)
    IN  InfoView(c.ret, c.heap)

\* the name a call result carries
NameOf(c) == IF IsNameCall(c) THEN c.ret ELSE c.ret.name

DigitVal(c) ==
    CASE c = "0" -> 0 [] c = "1" -> 1 [] c = "2" -> 2 [] c = "3" -> 3 [] c = "4" -> 4
      [] c = "5" -> 5 [] c = "6" -> 6 [] c = "7" -> 7 [] c = "8" -> 8 [] c = "9" -> 9

AllDigits(s) ==
    \A i \in 1..Len(s) :
        SubSeq(s, i, i) \in {"0", "1", "2", "3", "4", "5", "6", "7", "8", "9"}

RECURSIVE ParseNat(_)
ParseNat(s) ==
    IF Len(s) = 0 THEN 0
    ELSE ParseNat(SubSeq(s, 1, Len(s) - 1)) * 10 + DigitVal(SubSeq(s, Len(s), Len(s)))

\* s is the decimal numeral of the natural number n, without leading zeros
IsNumeralOfNat(s, n) ==
    /\ Len(s) >= 1
    /\ AllDigits(s)
    /\ (Len(s) > 1 => SubSeq(s, 1, 1) # "0")
    /\ ParseNat(s) = n

\* s is the textual form of the integer n
IsNumeralOf(s, n) ==
    IF n < 0
    THEN /\ Len(s) >= 2
         /\ SubSeq(s, 1, 1) = "-"
         /\ IsNumeralOfNat(SubSeq(s, 2, Len(s)), 0 - n)
    ELSE IsNumeralOfNat(s, n)

\* s is "Unknown Crystal Class (<n>)"
IsUnknownNameOf(s, n) ==
    LET p == "Unknown Crystal Class ("
    IN  /\ Len(s) > Len(p) + 1
        /\ SubSeq(s, 1, Len(p)) = p
        /\ SubSeq(s, Len(s), Len(s)) = ")"
        /\ IsNumeralOf(SubSeq(s, Len(p) + 1, Len(s) - 1), n)

----------------------------------------------------------------------------
(* Properties *)

\* C1: get_crystal_class_name(id) for id in 1..8 returns exactly the fixed
\* name of the Class Table for that id.
C1_KnownNames ==
    (IsNameCall(last) /\ last.arg \in KnownIds) =>
        /\ ~ last.raised
        /\ last.ret = CASE last.arg = Some(1) -> "Isometric (Cubic)"
                        [] last.arg = Some(2) -> "Hexagonal"
                        [] last.arg = Some(3) -> "Tetragonal"
                        [] last.arg = Some(4) -> "Orthorhombic"
                        [] last.arg = Some(5) -> "Monoclinic"
                        [] last.arg = Some(6) -> "Triclinic"
                        [] last.arg = Some(7) -> "Trigonal"
                        [] last.arg = Some(8) -> "Amorphous"

C1_Witness ==
    IsNameCall(last) /\ last.arg = Some(7) /\ ~ last.raised /\ last.ret = "Trigonal"

\* C2: for an integer id outside 1..8 (0, negative, 99, ...) the name returned
\* is "Unknown Crystal Class (<id>)" with <id> the textual form of the input.
C2_UnknownNames ==
    (IsNameCall(last) /\ last.arg # None /\ last.arg \notin KnownIds) =>
        /\ ~ last.raised
        /\ IsUnknownNameOf(last.ret, last.arg[1])
        /\ (last.arg = Some(99) => last.ret = "Unknown Crystal Class (99)")
        /\ (last.arg = Some(0) => last.ret = "Unknown Crystal Class (0)")
        /\ (last.arg = Some(0 - 1) => last.ret = "Unknown Crystal Class (-1)")

C2_Witness ==
    /\ IsNameCall(last) /\ last.arg = Some(0 - 7) /\ ~ last.raised
    /\ IsNameCall(memo) /\ memo.arg = Some(99) /\ memo.ret = "Unknown Crystal Class (99)"

\* C3: for the absent identifier the name is the literal "Unknown", returned
\* before the Class Table is consulted; 0 is a present value and not absent.
C3_Absent ==
    IsNameCall(last) =>
        /\ (last.arg = None =>
               ~ last.raised /\ last.ret = "Unknown" /\ last.line = 28)
        /\ (last.arg = Some(0) =>
               ~ last.raised /\ last.ret # "Unknown" /\ last.line = 30)

C3_Witness ==
    /\ IsNameCall(last) /\ last.arg = None /\ last.ret = "Unknown"
    /\ IsNameCall(memo) /\ memo.arg = Some(0) /\ memo.line = 30

\* C4: for id in 1..8, get_crystal_system_info(id) returns the name of id, the
\* non-empty description and the non-empty ordered examples of the Info Table
\* entry of that name; every Class Table name is a key of the Info Table.
C4_KnownInfo ==
    /\ \A i \in DOMAIN CRYSTAL_CLASS_LOOKUP :
           CRYSTAL_CLASS_LOOKUP[i] \in DOMAIN CRYSTAL_SYSTEM_INFO
    /\ (IsInfoCall(last) /\ last.arg \in KnownIds) =>
           /\ ~ last.raised
           /\ last.ret.name = get_crystal_class_name(last.arg, CRYSTAL_CLASS_LOOKUP).ret
           /\ last.ret.name \in DOMAIN CRYSTAL_SYSTEM_INFO
           /\ last.ret.description = CRYSTAL_SYSTEM_INFO[last.ret.name].description
           /\ Len(last.ret.description) > 0
           /\ last.ret.description # "No additional information available for this crystal system."
           /\ heap[last.ret.examples] = heap[CRYSTAL_SYSTEM_INFO[last.ret.name].examples]
           /\ Len(heap[last.ret.examples]) > 0
           /\ (last.arg = Some(1) =>
                  heap[last.ret.examples] =
                      <<"Pyrite", "Halite", "Fluorite", "Galena", "Diamond">>)

C4_Witness ==
    /\ IsInfoCall(last) /\ last.arg = Some(1) /\ ~ last.raised
    /\ last.ret.name = "Isometric (Cubic)"
    /\ Len(heap[last.ret.examples]) = 5

\* C5: for the absent identifier and for every integer outside 1..8,
\* get_crystal_system_info returns the name of the identifier, the default
\* description and an empty examples sequence.
C5_DefaultInfo ==
    (IsInfoCall(last) /\ last.arg \notin KnownIds) =>
        /\ ~ last.raised
        /\ last.ret.name = get_crystal_class_name(last.arg, CRYSTAL_CLASS_LOOKUP).ret
        /\ (last.arg = None => last.ret.name = "Unknown")
        /\ (last.arg # None => IsUnknownNameOf(last.ret.name, last.arg[1]))
        /\ (last.arg = Some(99) => last.ret.name = "Unknown Crystal Class (99)")
        /\ last.ret.description = "No additional information available for this crystal system."
        /\ heap[last.ret.examples] = <<>>

C5_Witness ==
    /\ IsInfoCall(last) /\ last.arg = Some(99) /\ ~ last.raised
    /\ IsInfoCall(memo) /\ memo.arg = None /\ ~ memo.raised
    /\ heap[last.ret.examples] = <<>>

\* C6: every call of either function returns a value, a string or a record of
\* name, description and examples, and none ends by raising.
C6_Total ==
    (last.op # "none") =>
        /\ ~ last.raised
        /\ (IsNameCall(last) => last.ret \in STRING)
        /\ (IsInfoCall(last) =>
               /\ DOMAIN last.ret = {"name", "description", "examples"}
               /\ last.ret.name \in STRING
               /\ last.ret.description \in STRING
               /\ last.ret.examples \in DOMAIN heap
               /\ \A i \in 1..Len(heap[last.ret.examples]) :
                      heap[last.ret.examples][i] \in STRING)

C6_Witness ==
    /\ IsInfoCall(last) /\ last.arg = Some(0) /\ ~ last.raised
    /\ IsNameCall(memo) /\ memo.arg = Some(99) /\ ~ memo.raised

\* C7: two calls of the same function with the same identifier give the same
\* result, whatever calls were made before or between them.
C7_Deterministic ==
    (last.op # "none" /\ memo.op = last.op /\ memo.arg = last.arg) =>
        /\ memo.raised = last.raised
        /\ (IsNameCall(last) /\ ~ last.raised => memo.ret = last.ret)
        /\ (IsInfoCall(last) /\ ~ last.raised =>
               InfoView(memo.ret, heap) = InfoView(last.ret, heap))

C7_Witness ==
    /\ IsInfoCall(last) /\ IsInfoCall(memo)
    /\ last.arg = Some(99) /\ memo.arg = Some(99)
    /\ ~ last.raised /\ ~ memo.raised
    /\ last.ret.examples # memo.ret.examples

\* C8: after any sequence of calls of the two functions both tables hold
\* exactly their initial contents.
C8_TablesImmutable ==
    /\ CRYSTAL_CLASS_LOOKUP = CLASS_LOOKUP_INIT
    /\ CRYSTAL_SYSTEM_INFO = InitInfoTab
    /\ InfoTableView(CRYSTAL_SYSTEM_INFO, heap) = InfoTableView(InitInfoTab, InitHeap)

C8_Witness ==
    /\ IsInfoCall(last) /\ last.arg = Some(99)
    /\ IsNameCall(memo) /\ memo.arg = Some(0 - 3)
    /\ CRYSTAL_CLASS_LOOKUP = CLASS_LOOKUP_INIT

\* C9: a record returned by get_crystal_system_info is independent of the
\* Info Table: whatever the caller writes into returned records, the Info
\* Table keeps its contents and a later call returns the original values.
C9_ReturnedRecordIndependent ==
    /\ InfoTableView(CRYSTAL_SYSTEM_INFO, heap) = InfoTableView(InitInfoTab, InitHeap)
    /\ \A id \in Ids :
           LET c == get_crystal_system_info(id, CRYSTAL_CLASS_LOOKUP,
                                            CRYSTAL_SYSTEM_INFO, heap)
           IN  ~ c.raised /\ InfoView(c.ret, c.heap) = OriginalInfo(id)

\* C10: get_crystal_class_name is injective: different identifiers never get
\* the same name, and neither "Unknown" nor a synthesized name is one of the
\* eight names or a key of the Info Table.
C10_Injective ==
    /\ \A a, b \in Ids :
           a # b => get_crystal_class_name(a, CRYSTAL_CLASS_LOOKUP).ret
                        # get_crystal_class_name(b, CRYSTAL_CLASS_LOOKUP).ret
    /\ \A a \in Ids \ KnownIds :
           LET n == get_crystal_class_name(a, CRYSTAL_CLASS_LOOKUP).ret
           IN  /\ n \notin DOMAIN CRYSTAL_SYSTEM_INFO
               /\ \A i \in DOMAIN CRYSTAL_CLASS_LOOKUP : CRYSTAL_CLASS_LOOKUP[i] # n
    /\ (/\ last.op # "none" /\ memo.op # "none"
        /\ ~ last.raised /\ ~ memo.raised
        /\ last.arg # memo.arg) => NameOf(last) # NameOf(memo)

C10_Witness ==
    /\ IsInfoCall(last) /\ last.arg = Some(99) /\ ~ last.raised
    /\ IsNameCall(memo) /\ memo.arg = Some(9) /\ ~ memo.raised
    /\ last.ret.name # memo.ret

====
